---------------------------- MODULE Spec2Model ----------------------------
(***************************************************************************)
(* A model of bitcoin_price.py: the indicator library (calculate_sma,      *)
(* calculate_ema, calculate_rsi, calculate_macd, calculate_bollinger_bands,*)
(* calculate_atr), analyze_coin, screen_coin, the report printers and the  *)
(* batch loop of run_multi_coin_screener.                                  *)
(*                                                                         *)
(* Numbers.  Python floats are modelled by exact rationals [n, d] in       *)
(* lowest terms with d > 0, so that equality of values is equality of      *)
(* records.  The square root taken by calculate_bollinger_bands is kept    *)
(* symbolic (a + k*sqrt(v)) and every comparison against it is decided by  *)
(* squaring.  Floating-point rounding is therefore not modelled.           *)
(* Python's None is the record None, distinct from every number, and a     *)
(* raised exception is a record Raise(name).                               *)
(***************************************************************************)
EXTENDS Integers, Sequences, FiniteSets, TLC

VARIABLES
    pc,           \* position of the running call / of the batch run
    prices,       \* indicator library: the `prices` argument
    ohlcv_data,   \* indicator library: the `ohlcv_data` argument of calculate_atr
    call,         \* indicator library: the function called and its parameters
    ema,          \* calculate_ema: local `ema`
    idx,          \* calculate_ema: number of prices consumed so far
    ret,          \* indicator library: the value returned (or exception raised)
    coin_data,    \* analyze_coin's result / screen_coin's argument
    alerts,       \* screen_coin's result
    market,       \* what the exchange answers (one response, or one per coin)
    coin_list,    \* run_multi_coin_screener: its argument
    i,            \* run_multi_coin_screener: loop counter (coins processed)
    all_coins,    \* run_multi_coin_screener: local all_coins
    all_alerts,   \* run_multi_coin_screener: local all_alerts
    table,        \* rows printed by print_summary_table
    alert_section \* entries printed by print_alerts

vars == <<pc, prices, ohlcv_data, call, ema, idx, ret, coin_data, alerts,
          market, coin_list, i, all_coins, all_alerts, table, alert_section>>

indVars == <<prices, ohlcv_data, call, ema, idx, ret>>
screenVars == <<coin_data, alerts>>
batchVars == <<coin_list, i, all_coins, all_alerts, table, alert_section>>

----------------------------------------------------------------------------
(* Bounds of the model *)

MaxPrice == 2     \* input values range over 0..MaxPrice
MaxLen == 16      \* indicator library: series have 0..MaxLen elements
MaxPeriod == 6    \* indicator library: periods 0..MaxPeriod (and the defaults)
MaxCoins == 3     \* batch: coin_list has 1..MaxCoins coins

----------------------------------------------------------------------------
(* Python values *)

None == [none |-> TRUE]
Raise(name) == [exc |-> name]
IsRaise(v) == "exc" \in DOMAIN v

Abs(x) == IF x < 0 THEN -x ELSE x

RECURSIVE GCD(_, _)
GCD(a, b) == IF b = 0 THEN a ELSE GCD(b, a % b)

\* the rational n/d (d # 0) in lowest terms
Rat(n, d) ==
    LET g == GCD(Abs(n), Abs(d))
        s == IF d < 0 THEN -1 ELSE 1
    IN  [n |-> s * (n \div g), d |-> s * (d \div g)]

R(k) == [n |-> k, d |-> 1]

RAdd(a, b) ==
    LET g == GCD(a.d, b.d)
    IN  Rat(a.n * (b.d \div g) + b.n * (a.d \div g), a.d * (b.d \div g))

RNeg(a) == [n |-> -a.n, d |-> a.d]
RSub(a, b) == RAdd(a, RNeg(b))

RMul(a, b) ==
    LET x == Rat(a.n, b.d)
        y == Rat(b.n, a.d)
    IN  [n |-> x.n * y.n, d |-> x.d * y.d]

\* a / b for b # 0
RDiv(a, b) == RMul(a, Rat(b.d, b.n))

RLt(a, b) == RSub(a, b).n < 0
RGt(a, b) == RLt(b, a)
RLe(a, b) == ~RLt(b, a)
RAbs(a) == [n |-> Abs(a.n), d |-> a.d]
RMax(a, b) == IF RLt(a, b) THEN b ELSE a

\* Python truthiness of a number, None, a dict or a string
Truthy(v) ==
    IF v = None THEN FALSE
    ELSE IF "n" \in DOMAIN v THEN v.n # 0
    ELSE TRUE

\* Python slices of a list
FirstN(s, k) == SubSeq(s, 1, IF k < Len(s) THEN k ELSE Len(s))            \* s[:k]
LastN(s, k) ==                                                            \* s[-k:]
    IF k = 0 \/ k >= Len(s) THEN s ELSE SubSeq(s, Len(s) - k + 1, Len(s))

\* sum(s): a left fold, 0 + s[1] + ... + s[n].  The fold is evaluated by
\* halving the range, which keeps the order of the additions.
RECURSIVE SumFold(_, _, _, _)
SumFold(acc, s, lo, hi) ==
    IF lo > hi THEN acc
    ELSE IF lo = hi THEN RAdd(acc, s[lo])
    ELSE LET mid == (lo + hi) \div 2
             left == SumFold(acc, s, lo, mid)
         IN  IF IsRaise(left) THEN left ELSE SumFold(left, s, mid + 1, hi)

Sum(s) == SumFold(R(0), s, 1, Len(s))

----------------------------------------------------------------------------
(* The indicator library *)

calculate_sma(prices_, period) ==
    IF Len(prices_) < period THEN None
    ELSE IF period = 0 THEN Raise("ZeroDivisionError")
    ELSE RDiv(Sum(LastN(prices_, period)), R(period))

\* a variant of ema_seed that averages the most recent `period` values
ema_seedFromLast(prices_, period) == RDiv(Sum(LastN(prices_, period)), R(period))

\* calculate_ema, line 48: the seed
ema_seed(prices_, period) == RDiv(Sum(FirstN(prices_, period)), R(period))

\* calculate_ema, line 51
ema_multiplier(period) == RDiv(R(2), R(period + 1))

\* calculate_ema, line 55: one pass of the loop body
ema_step(ema_, price, multiplier) ==
    RAdd(RMul(price, multiplier), RMul(ema_, RSub(R(1), multiplier)))

\* calculate_ema, lines 54-55: the loop body applied to prices_[lo..hi] in
\* order, evaluated by halving the range
RECURSIVE ema_loop(_, _, _, _, _)
ema_loop(ema_, prices_, multiplier, lo, hi) ==
    IF lo > hi THEN ema_
    ELSE IF lo = hi THEN ema_step(ema_, prices_[lo], multiplier)
    ELSE LET mid == (lo + hi) \div 2
             left == ema_loop(ema_, prices_, multiplier, lo, mid)
         IN  IF IsRaise(left) THEN left
             ELSE ema_loop(left, prices_, multiplier, mid + 1, hi)

calculate_ema(prices_, period) ==
    IF Len(prices_) < period THEN None
    ELSE IF period = 0 THEN Raise("ZeroDivisionError")
    ELSE ema_loop(ema_seed(prices_, period), prices_, ema_multiplier(period),
                  period + 1, Len(prices_))

\* a variant of rsi_value without the guard of line 92
rsi_saturationMissing(avg_gain, avg_loss) ==
    IF avg_loss = R(0) THEN Raise("ZeroDivisionError")
    ELSE LET rs == RDiv(avg_gain, avg_loss)
         IN  RSub(R(100), RDiv(R(100), RAdd(R(1), rs)))

\* calculate_rsi, lines 91-99
rsi_value(avg_gain, avg_loss) ==
    IF avg_loss = R(0) THEN R(100)
    ELSE LET rs == RDiv(avg_gain, avg_loss)
         IN  RSub(R(100), RDiv(R(100), RAdd(R(1), rs)))

calculate_rsi(prices_, period) ==
    IF Len(prices_) < period + 1 THEN None
    ELSE
      LET deltas == [k \in 1..(Len(prices_) - 1) |-> RSub(prices_[k + 1], prices_[k])]
          window == LastN(deltas, period)
          gains == [k \in 1..Len(window) |->
                      IF RGt(window[k], R(0)) THEN window[k] ELSE R(0)]
          losses == [k \in 1..Len(window) |->
                      IF RLt(window[k], R(0)) THEN RNeg(window[k]) ELSE R(0)]
      IN  IF period = 0 THEN Raise("ZeroDivisionError")
          ELSE rsi_value(RDiv(Sum(gains), R(period)), RDiv(Sum(losses), R(period)))

BULLISH == "BULLISH"
BEARISH == "BEARISH"

\* calculate_macd, lines 125-138: the MACD history, one value per window
macd_history(prices_, fast, slow) ==
    LET each == [j \in 1..(Len(prices_) - slow + 1) |->
                   LET price_window == FirstN(prices_, slow - 1 + j)
                       fast_ema_val == calculate_ema(price_window, fast)
                       slow_ema_val == calculate_ema(price_window, slow)
                   IN  IF fast_ema_val # None /\ slow_ema_val # None
                       THEN RSub(fast_ema_val, slow_ema_val)
                       ELSE None]
    IN  SelectSeq(each, LAMBDA v : v # None)

\* a variant of macd_too_short that forgets the signal period
macd_lengthGateSlowOnly(prices_, fast, slow, signal) == Len(prices_) < slow

\* calculate_macd, line 120
macd_too_short(prices_, fast, slow, signal) == Len(prices_) < slow + signal

calculate_macd(prices_, fast, slow, signal) ==
    IF macd_too_short(prices_, fast, slow, signal) THEN None
    ELSE
      LET macd_values == macd_history(prices_, fast, slow)
      IN  IF Len(macd_values) < signal THEN None
          ELSE
            LET macd_line == macd_values[Len(macd_values)]
                signal_line == calculate_ema(macd_values, signal)
            IN  IF signal_line = None THEN None
                ELSE [macd_line |-> macd_line,
                      signal_line |-> signal_line,
                      histogram |-> RSub(macd_line, signal_line),
                      trend |-> IF RGt(macd_line, signal_line)
                                THEN BULLISH ELSE BEARISH]

\* c0 + c1 * sqrt(v) < 0, for rationals c0, c1 and v >= 0
SurdNeg(c0, c1, v) ==
    LET lhs == RMul(RMul(c1, c1), v)
        rhs == RMul(c0, c0)
    IN  IF c1.n = 0 \/ v.n = 0 THEN c0.n < 0
        ELSE IF c1.n > 0 THEN c0.n < 0 /\ RLt(lhs, rhs)
        ELSE c0.n < 0 \/ RLt(rhs, lhs)

NEAR_UPPER == "NEAR UPPER BAND"
NEAR_LOWER == "NEAR LOWER BAND"
ABOVE_UPPER == "ABOVE UPPER BAND"
BELOW_LOWER == "BELOW LOWER BAND"
BETWEEN == "BETWEEN BANDS"

\* calculate_bollinger_bands, lines 201-204: with std = sqrt(variance),
\* upper = middle + std_dev*std, lower = middle - std_dev*std and
\* band_width = 2*std_dev*std, so band_width > 0 iff std_dev > 0 and variance > 0
bb_band_width_positive(std_dev, variance) == std_dev > 0 /\ variance.n > 0

\* distance_from_upper < 0.05:
\* (upper - price)/band_width < 1/20  iff  (middle - price) + (9/10)*std_dev*std < 0
bb_near_upper(middle, std_dev, variance, current_price) ==
    IF bb_band_width_positive(std_dev, variance)
    THEN SurdNeg(RSub(middle, current_price), Rat(9 * std_dev, 10), variance)
    ELSE TRUE   \* the distance is taken as 0, and 0 < 0.05

\* distance_from_lower < 0.05
bb_near_lower(middle, std_dev, variance, current_price) ==
    IF bb_band_width_positive(std_dev, variance)
    THEN SurdNeg(RSub(current_price, middle), Rat(9 * std_dev, 10), variance)
    ELSE TRUE

\* current_price > upper
bb_above_upper(middle, std_dev, variance, current_price) ==
    SurdNeg(RSub(middle, current_price), R(std_dev), variance)

\* current_price < lower
bb_below_lower(middle, std_dev, variance, current_price) ==
    SurdNeg(RSub(current_price, middle), R(std_dev), variance)

\* a variant of bb_position that tests the strict comparisons first
bb_positionStrictFirst(middle, std_dev, variance, current_price) ==
    IF bb_above_upper(middle, std_dev, variance, current_price) THEN ABOVE_UPPER
    ELSE IF bb_below_lower(middle, std_dev, variance, current_price) THEN BELOW_LOWER
    ELSE IF bb_near_upper(middle, std_dev, variance, current_price) THEN NEAR_UPPER
    ELSE IF bb_near_lower(middle, std_dev, variance, current_price) THEN NEAR_LOWER
    ELSE BETWEEN

\* calculate_bollinger_bands, lines 206-215
bb_position(middle, std_dev, variance, current_price) ==
    IF bb_near_upper(middle, std_dev, variance, current_price) THEN NEAR_UPPER
    ELSE IF bb_near_lower(middle, std_dev, variance, current_price) THEN NEAR_LOWER
    ELSE IF bb_above_upper(middle, std_dev, variance, current_price) THEN ABOVE_UPPER
    ELSE IF bb_below_lower(middle, std_dev, variance, current_price) THEN BELOW_LOWER
    ELSE BETWEEN

\* a band middle + k*sqrt(variance), kept symbolic
Band(middle, k, variance) == [a |-> middle, k |-> k, v |-> variance]

calculate_bollinger_bands(prices_, period, std_dev) ==
    IF Len(prices_) < period THEN None
    ELSE
      LET middle == calculate_sma(prices_, period)
      IN  IF IsRaise(middle) THEN middle
          ELSE
            LET recent_prices == LastN(prices_, period)
                sq == [k \in 1..Len(recent_prices) |->
                         RMul(RSub(recent_prices[k], middle),
                              RSub(recent_prices[k], middle))]
                variance == RDiv(Sum(sq), R(period))
                current_price == prices_[Len(prices_)]
            IN  [upper |-> Band(middle, std_dev, variance),
                 middle |-> middle,
                 lower |-> Band(middle, -std_dev, variance),
                 position |-> bb_position(middle, std_dev, variance, current_price)]

\* a candle as ccxt returns it: [timestamp, open, high, low, close, volume];
\* Python's candle[2], [3], [4], [5] are the 3rd to 6th fields here
High(candle) == candle[3]
Low(candle) == candle[4]
Close(candle) == candle[5]
Volume(candle) == candle[6]

true_range(ohlcv, k) ==
    LET high == High(ohlcv[k])
        low == Low(ohlcv[k])
        prev_close == Close(ohlcv[k - 1])
        tr1 == RSub(high, low)
        tr2 == RAbs(RSub(high, prev_close))
        tr3 == RAbs(RSub(low, prev_close))
    IN  RMax(RMax(tr1, tr2), tr3)

calculate_atr(ohlcv, period) ==
    IF Len(ohlcv) < period + 1 THEN None
    ELSE
      LET true_ranges == [k \in 1..(Len(ohlcv) - 1) |-> true_range(ohlcv, k + 1)]
      IN  IF Len(true_ranges) < period THEN None
          ELSE IF period = 0 THEN Raise("ZeroDivisionError")
          ELSE RDiv(Sum(LastN(true_ranges, period)), R(period))

----------------------------------------------------------------------------
(* The indicator library called on bounded inputs *)

Values == {R(v) : v \in 0..MaxPrice}

\* a series of n values: a free first value, a flat middle, two free last values
Series(n, h, f, t1, t2) ==
    [k \in 1..n |-> IF k = 1 THEN h
                    ELSE IF k = n THEN t2
                    ELSE IF k = n - 1 THEN t1
                    ELSE f]

ExampleSeries == <<R(1), R(2), R(3), R(4), R(5)>>

SeriesSet ==
    {Series(n, h, f, t1, t2) : n \in 0..MaxLen, h \in Values, f \in Values,
                               t1 \in Values, t2 \in Values}
    \cup {ExampleSeries}

RSI_PERIOD == 14
BB_PERIOD == 20
BB_STD_DEV == 2
MACD_FAST == 12
MACD_SLOW == 26
MACD_SIGNAL == 9

Periods == (0..MaxPeriod) \cup {RSI_PERIOD, BB_PERIOD}

MaxMacdPeriod == 2   \* MACD is also called with fast, signal in 1..MaxMacdPeriod
MacdParams ==
    {<<MACD_FAST, MACD_SLOW, MACD_SIGNAL>>}
    \cup {<<f, s, g>> : f \in 1..MaxMacdPeriod, s \in 2..(MaxMacdPeriod + 1),
                        g \in 1..MaxMacdPeriod}

\* the EMA recurrence is evaluated on series of at most MaxEmaLen values: its
\* exact value needs a denominator (period+1)^(length-period)
MaxEmaLen == 8
EmaInRange(s, minimum) == Len(s) < minimum \/ Len(s) <= MaxEmaLen

\* candles whose close is the series and whose high is close + spread
Candles(s, spread) ==
    [k \in 1..Len(s) |-> <<R(k), s[k], RAdd(s[k], R(spread)), s[k], s[k], R(1)>>]

InitInd ==
    /\ pc = "input"
    /\ prices \in SeriesSet
    /\ ohlcv_data = <<>>
    /\ call = None
    /\ ema = None
    /\ idx = 0
    /\ ret = None
    /\ coin_data = None /\ alerts = <<>> /\ market = None
    /\ coin_list = <<>> /\ i = 0 /\ all_coins = <<>> /\ all_alerts = <<>>
    /\ table = <<>> /\ alert_section = <<>>

CallSma ==
    /\ pc = "input"
    /\ \E period \in Periods :
         /\ call' = [fn |-> "calculate_sma", period |-> period]
         /\ ret' = calculate_sma(prices, period)
    /\ pc' = "returned"
    /\ UNCHANGED <<prices, ohlcv_data, ema, idx, screenVars, market, batchVars>>

\* calculate_ema, lines 44-48: the length check and the seed
EmaEnter ==
    /\ pc = "input"
    /\ \E period \in Periods :
         /\ EmaInRange(prices, period)
         /\ call' = [fn |-> "calculate_ema", period |-> period]
         /\ IF Len(prices) < period
            THEN pc' = "returned" /\ ret' = None /\ UNCHANGED <<ema, idx>>
            ELSE IF period = 0
            THEN /\ pc' = "returned" /\ ret' = Raise("ZeroDivisionError")
                 /\ UNCHANGED <<ema, idx>>
            ELSE /\ pc' = "ema_loop"
                 /\ ema' = ema_seed(prices, period)
                 /\ idx' = period
                 /\ UNCHANGED ret
    /\ UNCHANGED <<prices, ohlcv_data, screenVars, market, batchVars>>

\* calculate_ema, lines 54-55: one pass of the loop over prices[period:]
EmaStep ==
    /\ pc = "ema_loop"
    /\ idx < Len(prices)
    /\ ema' = ema_step(ema, prices[idx + 1], ema_multiplier(call.period))
    /\ idx' = idx + 1
    /\ UNCHANGED <<pc, prices, ohlcv_data, call, ret, screenVars, market, batchVars>>

\* calculate_ema, line 57
EmaReturn ==
    /\ pc = "ema_loop"
    /\ idx = Len(prices)
    /\ ret' = ema
    /\ pc' = "returned"
    /\ UNCHANGED <<prices, ohlcv_data, call, ema, idx, screenVars, market, batchVars>>

CallRsi ==
    /\ pc = "input"
    /\ \E period \in Periods :
         /\ call' = [fn |-> "calculate_rsi", period |-> period]
         /\ ret' = calculate_rsi(prices, period)
    /\ pc' = "returned"
    /\ UNCHANGED <<prices, ohlcv_data, ema, idx, screenVars, market, batchVars>>

CallMacd ==
    /\ pc = "input"
    /\ \E p \in MacdParams :
         /\ EmaInRange(prices, p[2] + p[3])
         /\ call' = [fn |-> "calculate_macd", fast |-> p[1], slow |-> p[2],
                     signal |-> p[3]]
         /\ ret' = calculate_macd(prices, p[1], p[2], p[3])
    /\ pc' = "returned"
    /\ UNCHANGED <<prices, ohlcv_data, ema, idx, screenVars, market, batchVars>>

CallBollinger ==
    /\ pc = "input"
    /\ \E period \in Periods :
         /\ call' = [fn |-> "calculate_bollinger_bands", period |-> period,
                     std_dev |-> BB_STD_DEV]
         /\ ret' = calculate_bollinger_bands(prices, period, BB_STD_DEV)
    /\ pc' = "returned"
    /\ UNCHANGED <<prices, ohlcv_data, ema, idx, screenVars, market, batchVars>>

CallAtr ==
    /\ pc = "input"
    /\ \E period \in Periods, spread \in 0..1 :
         /\ ohlcv_data' = Candles(prices, spread)
         /\ call' = [fn |-> "calculate_atr", period |-> period]
         /\ ret' = calculate_atr(Candles(prices, spread), period)
    /\ pc' = "returned"
    /\ UNCHANGED <<prices, ema, idx, screenVars, market, batchVars>>

NextInd ==
    \/ CallSma
    \/ EmaEnter
    \/ EmaStep
    \/ EmaReturn
    \/ CallRsi
    \/ CallMacd
    \/ CallBollinger
    \/ CallAtr

SpecInd == InitInd /\ [][NextInd]_vars

----------------------------------------------------------------------------
(* Properties of the indicator library (checked under SpecInd) *)

Returned(fn) == pc = "returned" /\ call.fn = fn

IsNumber(v) == "n" \in DOMAIN v

\* C7: for every positive period and every series shorter than the
\* indicator's minimum (SMA, EMA, Bollinger: length < period; RSI, ATR:
\* length < period + 1; MACD: length < slow + signal) the call returns None:
\* not 0, not any other number, and no exception is raised.
C7_ShortSeriesUnavailable ==
    /\ \A fn \in {"calculate_sma", "calculate_ema", "calculate_bollinger_bands"} :
         (Returned(fn) /\ call.period > 0 /\ Len(prices) < call.period)
            => (ret = None /\ ~IsNumber(ret) /\ ~IsRaise(ret))
    /\ (Returned("calculate_rsi") /\ call.period > 0 /\ Len(prices) < call.period + 1)
            => (ret = None /\ ~IsNumber(ret) /\ ~IsRaise(ret))
    /\ (Returned("calculate_atr") /\ call.period > 0
          /\ Len(ohlcv_data) < call.period + 1)
            => (ret = None /\ ~IsNumber(ret) /\ ~IsRaise(ret))
    /\ (Returned("calculate_macd") /\ Len(prices) < call.slow + call.signal)
            => (ret = None /\ ~IsNumber(ret) /\ ~IsRaise(ret))

\* C7's case: MACD called on a series one value short of slow + signal
C7_Witness ==
    /\ Returned("calculate_macd")
    /\ Len(prices) = call.slow + call.signal - 1
    /\ ret = None

NonDecreasing(s) == \A k \in 1..(Len(s) - 1) : RLe(s[k], s[k + 1])

\* C8: on every non-decreasing series of at least 15 values (flat ones
\* included) calculate_rsi with period 14 returns exactly 100, and raises no
\* ZeroDivisionError.
C8_RsiSaturates ==
    (Returned("calculate_rsi") /\ call.period = RSI_PERIOD
       /\ Len(prices) >= RSI_PERIOD + 1 /\ NonDecreasing(prices))
        => (ret = R(100) /\ ~IsRaise(ret))

\* C8's case: a long series that rises at its end, and a flat one is covered
\* by the same run
C8_Witness ==
    /\ Returned("calculate_rsi") /\ call.period = RSI_PERIOD
    /\ Len(prices) >= RSI_PERIOD + 1
    /\ NonDecreasing(prices)
    /\ RLt(prices[Len(prices) - 1], prices[Len(prices)])
    /\ ret = R(100)

\* the recurrence C9 states: the mean of the first p values, then
\* ema = price*k + ema*(1-k) with k = 2/(p+1) for each later value in order
RECURSIVE EmaLaw(_, _, _)
EmaLaw(s, p, upto) ==
    IF upto = p THEN RDiv(Sum(SubSeq(s, 1, p)), R(p))
    ELSE LET k == Rat(2, p + 1)
         IN  RAdd(RMul(s[upto], k), RMul(EmaLaw(s, p, upto - 1), RSub(R(1), k)))

\* C9: calculate_ema follows the recurrence seeded with the mean of the
\* first `period` values, at every pass of its loop and in what it returns;
\* on [1,2,3,4,5] with period 3 the trajectory is 2, 3, 4 and the result 4;
\* when the length equals the period the result is the SMA.
C9_EmaRecurrence ==
    /\ pc = "ema_loop" => ema = EmaLaw(prices, call.period, idx)
    /\ (Returned("calculate_ema") /\ call.period > 0 /\ Len(prices) >= call.period)
         => /\ ret = EmaLaw(prices, call.period, Len(prices))
            /\ Len(prices) = call.period
                 => ret = RDiv(Sum(prices), R(call.period))
    /\ (prices = ExampleSeries /\ call # None /\ call.fn = "calculate_ema"
          /\ call.period = 3)
         => /\ (pc = "ema_loop" /\ idx = 3) => ema = R(2)
            /\ (pc = "ema_loop" /\ idx = 4) => ema = R(3)
            /\ (pc = "ema_loop" /\ idx = 5) => ema = R(4)
            /\ pc = "returned" => ret = R(4)

\* C9's case: EMA([1,2,3,4,5], 3) has returned 4
C9_Witness ==
    /\ Returned("calculate_ema")
    /\ prices = ExampleSeries /\ call.period = 3
    /\ ret = R(4)

BollingerReturned ==
    Returned("calculate_bollinger_bands") /\ ret # None /\ ~IsRaise(ret)

LastPrice == prices[Len(prices)]

\* C10: when the most recent price is within 5% of the band width of the
\* upper band (distance taken as 0 for a band width <= 0) and also above the
\* upper band, the position is "near upper", never "above upper".
C10_ProximityFirst ==
    (/\ BollingerReturned
     /\ bb_near_upper(ret.middle, ret.upper.k, ret.upper.v, LastPrice)
     /\ bb_above_upper(ret.middle, ret.upper.k, ret.upper.v, LastPrice))
        => ret.position = NEAR_UPPER

\* C10's case: the last price lies above the upper band
C10_Witness ==
    /\ BollingerReturned
    /\ bb_near_upper(ret.middle, ret.upper.k, ret.upper.v, LastPrice)
    /\ bb_above_upper(ret.middle, ret.upper.k, ret.upper.v, LastPrice)
    /\ ret.position = NEAR_UPPER

----------------------------------------------------------------------------
(* screen_coin *)

\* a Python string held in a field that may also hold None
Str(x) == [str |-> x]

OVERSOLD == "OVERSOLD"
OVERBOUGHT == "OVERBOUGHT"
VOLUME_SPIKE == "VOLUME SPIKE"
BULLISH_SETUP == "BULLISH SETUP"
BREAKDOWN_RISK == "BREAKDOWN RISK"

RSI_OVERSOLD == 30
RSI_OVERBOUGHT == 70
VOLUME_SPIKE_RATIO == 2
SETUP_RSI_LOW == 40
SETUP_RSI_HIGH == 60

\* macd.get('trend', '')
macd_trend(macd) == IF "trend" \in DOMAIN macd THEN macd.trend ELSE ""

\* line 387
is_oversold(rsi) == rsi # None /\ RLt(rsi, R(RSI_OVERSOLD))

\* a variant of is_overbought with the comparison turned round
is_overboughtFlipped(rsi) == rsi # None /\ RLt(rsi, R(RSI_OVERBOUGHT))

\* line 391
is_overbought(rsi) == rsi # None /\ RGt(rsi, R(RSI_OVERBOUGHT))

\* line 395
is_volume_spike(volume_ratio) ==
    volume_ratio # None /\ RGt(volume_ratio, R(VOLUME_SPIKE_RATIO))

\* lines 399-402
is_bullish_setup(price, sma_20, sma_50, macd, rsi) ==
    /\ Truthy(price) /\ Truthy(sma_20) /\ Truthy(sma_50) /\ Truthy(macd)
    /\ rsi # None
    /\ RGt(price, sma_20) /\ RGt(price, sma_50)
    /\ macd_trend(macd) = BULLISH
    /\ RLe(R(SETUP_RSI_LOW), rsi) /\ RLe(rsi, R(SETUP_RSI_HIGH))

\* lines 406-409
is_breakdown_risk(price, sma_20, sma_50, macd, rsi, rsi_trend) ==
    /\ Truthy(price) /\ Truthy(sma_20) /\ Truthy(sma_50) /\ Truthy(macd)
    /\ rsi # None /\ Truthy(rsi_trend)
    /\ RLt(price, sma_20) /\ RLt(price, sma_50)
    /\ macd_trend(macd) = BEARISH
    /\ rsi_trend = Str("DOWN")

Opt(cond, alert) == IF cond THEN <<alert>> ELSE <<>>

screen_coin(coin) ==
    IF coin = None THEN <<>>
    ELSE
      LET rsi == coin.rsi
          price == coin.price
          sma_20 == coin.sma_20
          sma_50 == coin.sma_50
          macd == coin.macd
          volume_ratio == coin.volume_ratio
          rsi_trend == coin.rsi_trend
      IN  Opt(is_oversold(rsi), OVERSOLD)
          \o Opt(is_overbought(rsi), OVERBOUGHT)
          \o Opt(is_volume_spike(volume_ratio), VOLUME_SPIKE)
          \o Opt(is_bullish_setup(price, sma_20, sma_50, macd, rsi), BULLISH_SETUP)
          \o Opt(is_breakdown_risk(price, sma_20, sma_50, macd, rsi, rsi_trend),
                 BREAKDOWN_RISK)

\* the record analyze_coin returns (lines 345-357)
CoinData(symbol, price, change_24h, volume_24h, sma_20, sma_50, rsi, rsi_trend, macd, volume_ratio, avg_volume_20d) ==
    [symbol |-> symbol, price |-> price, change_24h |-> change_24h,
     volume_24h |-> volume_24h, sma_20 |-> sma_20, sma_50 |-> sma_50,
     rsi |-> rsi, rsi_trend |-> rsi_trend, macd |-> macd,
     volume_ratio |-> volume_ratio, avg_volume_20d |-> avg_volume_20d]

\* screen_coin called on crafted analysis records
OptValues == {None} \cup Values

RsiValues ==
    {None, R(0), R(50), R(100)}
    \cup {R(t + e) : t \in {RSI_OVERSOLD, RSI_OVERBOUGHT, SETUP_RSI_LOW, SETUP_RSI_HIGH},
                     e \in {-1, 0, 1}}

MacdValues ==
    {None,
     [macd_line |-> R(1), signal_line |-> R(0), histogram |-> R(1), trend |-> BULLISH],
     [macd_line |-> R(0), signal_line |-> R(0), histogram |-> R(0), trend |-> BEARISH],
     [macd_line |-> R(0)]}

RatioValues == {None, R(VOLUME_SPIKE_RATIO), R(VOLUME_SPIKE_RATIO + 1)}

TrendValues == {None, Str("UP"), Str("DOWN"), Str("FLAT")}

InitScreen ==
    /\ pc = "crafted"
    /\ \E rsi \in RsiValues, price \in OptValues, sma_20 \in OptValues,
          sma_50 \in OptValues, macd \in MacdValues, ratio \in RatioValues,
          rsi_trend \in TrendValues :
         coin_data = CoinData("BTC", price, None, None, sma_20, sma_50, rsi,
                              rsi_trend, macd, ratio, None)
    /\ alerts = <<>>
    /\ prices = <<>> /\ ohlcv_data = <<>> /\ call = None /\ ema = None
    /\ idx = 0 /\ ret = None /\ market = None
    /\ coin_list = <<>> /\ i = 0 /\ all_coins = <<>> /\ all_alerts = <<>>
    /\ table = <<>> /\ alert_section = <<>>

ScreenCoin ==
    /\ pc \in {"crafted", "analyzed"}
    /\ alerts' = screen_coin(coin_data)
    /\ pc' = "screened"
    /\ UNCHANGED <<indVars, coin_data, market, batchVars>>

NextScreen == ScreenCoin

SpecScreen == InitScreen /\ [][NextScreen]_vars

----------------------------------------------------------------------------
(* Properties of screen_coin (checked under SpecScreen) *)

Fired(alert) == \E k \in 1..Len(alerts) : alerts[k] = alert

\* C3: for every analysis record the alert list screen_coin returns never
\* holds both OVERSOLD and OVERBOUGHT.
C3_OversoldXorOverbought ==
    pc = "screened" => ~(Fired(OVERSOLD) /\ Fired(OVERBOUGHT))

\* C3's case: a record with an RSI value has been screened and one of the
\* two alerts fired
C3_Witness ==
    /\ pc = "screened"
    /\ coin_data.rsi # None
    /\ Fired(OVERBOUGHT)

\* a value is present when it is not None; 0 is a present value
Present(v) == v # None

\* C4: screen_coin emits BREAKDOWN_RISK if and only if price, sma20, sma50,
\* macd, rsi and rsiTrend are all present (0 counts as present),
\* price < sma20, price < sma50, macd.trend = BEARISH and rsiTrend = DOWN.
C4_BreakdownIff ==
    pc = "screened" =>
       (Fired(BREAKDOWN_RISK) <=>
          /\ Present(coin_data.price) /\ Present(coin_data.sma_20)
          /\ Present(coin_data.sma_50) /\ Present(coin_data.macd)
          /\ Present(coin_data.rsi) /\ Present(coin_data.rsi_trend)
          /\ RLt(coin_data.price, coin_data.sma_20)
          /\ RLt(coin_data.price, coin_data.sma_50)
          /\ macd_trend(coin_data.macd) = BEARISH
          /\ coin_data.rsi_trend = Str("DOWN"))

\* C5: screen_coin emits BULLISH_SETUP if and only if price, sma20, sma50,
\* macd and rsi are all present (0 counts as present), price > sma20,
\* price > sma50, macd.trend = BULLISH and 40 <= rsi <= 60.
C5_BullishIff ==
    pc = "screened" =>
       (Fired(BULLISH_SETUP) <=>
          /\ Present(coin_data.price) /\ Present(coin_data.sma_20)
          /\ Present(coin_data.sma_50) /\ Present(coin_data.macd)
          /\ Present(coin_data.rsi)
          /\ RGt(coin_data.price, coin_data.sma_20)
          /\ RGt(coin_data.price, coin_data.sma_50)
          /\ macd_trend(coin_data.macd) = BULLISH
          /\ RLe(R(SETUP_RSI_LOW), coin_data.rsi)
          /\ RLe(coin_data.rsi, R(SETUP_RSI_HIGH)))

----------------------------------------------------------------------------
(* analyze_coin *)

MIN_CANDLES == 50
OHLCV_LIMIT == 60
SMA_SHORT == 20
SMA_LONG == 50
RSI_TREND_MIN == 15

\* daily candles: closes all 1 but the last two, a constant volume
Closes(n, t1, t2) == Series(n, R(1), R(1), t1, t2)
Ohlcv(n, t1, t2, vol) ==
    LET c == Closes(n, t1, t2)
    IN  [k \in 1..n |-> <<R(k), c[k], c[k], c[k], c[k], vol>>]

\* What the exchange answers for one symbol: `fails` names the call that
\* raises ("none" when both succeed), `ticker` is fetch_ticker's result, and
\* fetch_ohlcv returns `candles.n` candles closing at 1, ..., 1, t1, t2 with
\* volume `vol` each.
Response(fails, last, percentage, quoteVolume, n, t1, t2, vol) ==
    [fails |-> fails,
     ticker |-> [last |-> last, percentage |-> percentage,
                 quoteVolume |-> quoteVolume],
     candles |-> [n |-> n, t1 |-> t1, t2 |-> t2, vol |-> vol]]

fetch_ohlcv(resp) ==
    Ohlcv(resp.candles.n, resp.candles.t1, resp.candles.t2, resp.candles.vol)

TickerFails == Response("fetch_ticker", None, None, None, 0, R(1), R(1), R(1))
OhlcvFails(last, percentage, quoteVolume) ==
    Response("fetch_ohlcv", last, percentage, quoteVolume, 0, R(1), R(1), R(1))

\* line 329: calculate_macd(closing_prices, 12, 26, 9), tabulated once over the
\* closing prices of at least MIN_CANDLES candles that the model draws
LongCloses ==
    {Closes(n, t1, t2) : n \in MIN_CANDLES..OHLCV_LIMIT, t1 \in Values, t2 \in Values}
MacdTable ==
    [c \in LongCloses |-> calculate_macd(c, MACD_FAST, MACD_SLOW, MACD_SIGNAL)]
macd_of(closing_prices) == MacdTable[closing_prices]

\* a variant of too_few_candles that also rejects exactly 50 candles
too_few_candlesOffByOne(ohlcv) == Len(ohlcv) <= MIN_CANDLES

\* line 318
too_few_candles(ohlcv) == Len(ohlcv) < MIN_CANDLES

\* line 331
volume_ratio_of(volume_24h, avg_volume_20d) ==
    IF Truthy(avg_volume_20d) /\ RGt(avg_volume_20d, R(0))
    THEN IF volume_24h = None THEN Raise("TypeError")
         ELSE RDiv(volume_24h, avg_volume_20d)
    ELSE None

\* lines 334-343
rsi_trend_of(closing_prices, rsi_14) ==
    IF Len(closing_prices) >= RSI_TREND_MIN
    THEN LET rsi_prev ==
               calculate_rsi(FirstN(closing_prices, Len(closing_prices) - 1),
                             RSI_PERIOD)
         IN  IF rsi_prev # None /\ rsi_14 # None
             THEN IF RLt(rsi_14, rsi_prev) THEN Str("DOWN")
                  ELSE IF RGt(rsi_14, rsi_prev) THEN Str("UP")
                  ELSE Str("FLAT")
             ELSE None
    ELSE None

\* line 511: f"{coin}/USDT"
symbol_of(coin) == coin \o "/USDT"

\* str.replace: every occurrence of the non-empty `old`, left to right
RECURSIVE replace(_, _, _)
replace(s, old, new) ==
    IF Len(s) < Len(old) THEN s
    ELSE IF SubSeq(s, 1, Len(old)) = old
         THEN new \o replace(SubSeq(s, Len(old) + 1, Len(s)), old, new)
         ELSE SubSeq(s, 1, 1) \o replace(SubSeq(s, 2, Len(s)), old, new)

\* the try block, lines 309-357: the record, None, or the exception raised
analyze_coin_try(symbol, resp) ==
    IF resp.fails = "fetch_ticker" THEN Raise("NetworkError")
    ELSE
      LET current_price == resp.ticker.last
          change_24h == resp.ticker.percentage
          volume_24h == resp.ticker.quoteVolume
      IN
      IF resp.fails = "fetch_ohlcv" THEN Raise("NetworkError")
      ELSE IF too_few_candles(fetch_ohlcv(resp)) THEN None
      ELSE
        LET ohlcv == fetch_ohlcv(resp)
            closing_prices == [k \in 1..Len(ohlcv) |-> Close(ohlcv[k])]
            volumes == [k \in 1..Len(ohlcv) |-> Volume(ohlcv[k])]
            sma_20 == calculate_sma(closing_prices, SMA_SHORT)
            sma_50 == calculate_sma(closing_prices, SMA_LONG)
            rsi_14 == calculate_rsi(closing_prices, RSI_PERIOD)
            macd == macd_of(closing_prices)
            avg_volume_20d == IF Len(volumes) >= SMA_SHORT
                              THEN calculate_sma(volumes, SMA_SHORT) ELSE None
            volume_ratio == volume_ratio_of(volume_24h, avg_volume_20d)
            rsi_trend == rsi_trend_of(closing_prices, rsi_14)
        IN  IF IsRaise(volume_ratio) THEN volume_ratio
            ELSE CoinData(replace(symbol, "/USDT", ""), current_price,
                          change_24h, volume_24h, sma_20, sma_50, rsi_14,
                          rsi_trend, macd, volume_ratio, avg_volume_20d)

\* lines 308-360: any exception is caught and None returned
analyze_coin(symbol, resp) ==
    LET outcome == analyze_coin_try(symbol, resp)
    IN  IF IsRaise(outcome) THEN None ELSE outcome

\* analyze_coin, then screen_coin, on one bounded exchange response
QuoteVolumes == {None, R(0), R(3)}
Percentages == {None, R(1)}
CandleVolumes == {R(0), R(1)}

InitAnalyze ==
    /\ pc = "request"
    /\ \/ market = TickerFails
       \/ \E last \in OptValues, pct \in Percentages, qv \in QuoteVolumes :
            \/ market = OhlcvFails(last, pct, qv)
            \/ \E n \in 0..OHLCV_LIMIT, t1 \in Values, t2 \in Values,
                  vol \in CandleVolumes :
                 market = Response("none", last, pct, qv, n, t1, t2, vol)
    /\ coin_data = None /\ alerts = <<>>
    /\ prices = <<>> /\ ohlcv_data = <<>> /\ call = None /\ ema = None
    /\ idx = 0 /\ ret = None
    /\ coin_list = <<"BTC">> /\ i = 0 /\ all_coins = <<>> /\ all_alerts = <<>>
    /\ table = <<>> /\ alert_section = <<>>

AnalyzeCoin ==
    /\ pc = "request"
    /\ coin_data' = analyze_coin(symbol_of(coin_list[1]), market)
    /\ pc' = "analyzed"
    /\ UNCHANGED <<indVars, alerts, market, batchVars>>

NextAnalyze ==
    \/ AnalyzeCoin
    \/ ScreenCoin

SpecAnalyze == InitAnalyze /\ [][NextAnalyze]_vars

----------------------------------------------------------------------------
(* Properties of analyze_coin (checked under SpecAnalyze) *)

SnapshotPresent(resp) ==
    /\ resp.ticker.last # None
    /\ resp.ticker.percentage # None
    /\ resp.ticker.quoteVolume # None

\* C6: a fetched series of fewer than 50 candles yields no analysis; a series
\* of at least 50 candles with all snapshot fields present yields an analysis
\* record whose sma20, sma50, rsi14, macd and rsiTrend are all available.
C6_FiftyCandleGate ==
    (pc = "analyzed" /\ market.fails = "none") =>
       /\ market.candles.n < MIN_CANDLES => coin_data = None
       /\ (market.candles.n >= MIN_CANDLES /\ SnapshotPresent(market)) =>
            /\ coin_data # None
            /\ coin_data.sma_20 # None /\ coin_data.sma_50 # None
            /\ coin_data.rsi # None /\ coin_data.macd # None
            /\ coin_data.rsi_trend # None

\* C6's case: exactly 50 candles were analysed
C6_Witness ==
    /\ pc = "analyzed" /\ market.fails = "none"
    /\ market.candles.n = MIN_CANDLES
    /\ SnapshotPresent(market)
    /\ coin_data # None /\ coin_data.macd # None

----------------------------------------------------------------------------
(* Report rendering *)

NA == Str("N/A")

\* f"{x:.{decimals}f}": x scaled by 10^decimals and rounded to the nearest
\* whole number, ties to even
Fixed(x, decimals) ==
    LET s == RMul(x, R(10 ^ decimals))
        floor == s.n \div s.d
        twice == 2 * (s.n - floor * s.d)
    IN  IF twice > s.d \/ (twice = s.d /\ floor % 2 = 1) THEN floor + 1
        ELSE floor

\* a formatted number: prefix, digits with `decimals` places, suffix;
\* `grouped` is the thousands separator and `signed` the forced sign
Cell(prefix, x, decimals, suffix, grouped, signed) ==
    [prefix |-> prefix, digits |-> Fixed(x, decimals), decimals |-> decimals,
     suffix |-> suffix, grouped |-> grouped, signed |-> signed]

\* lines 283-294
format_price(price) ==
    IF price = None THEN NA
    ELSE IF RLe(R(1000), price) THEN Cell("$", price, 2, "", TRUE, FALSE)
    ELSE IF RLe(R(1), price) THEN Cell("$", price, 2, "", FALSE, FALSE)
    ELSE Cell("$", price, 4, "", FALSE, FALSE)

\* f"{change_24h:+.2f}%" or "N/A"
format_change(change_24h) ==
    IF change_24h # None THEN Cell("", change_24h, 2, "%", FALSE, TRUE) ELSE NA

\* f"{rsi:.1f}" or "N/A"
format_rsi(rsi) ==
    IF rsi # None THEN Cell("", rsi, 1, "", FALSE, FALSE) ELSE NA

\* lines 435-440
macd_status_of(macd) ==
    IF Truthy(macd)
    THEN IF macd_trend(macd) = BULLISH THEN Str("Bullish")
         ELSE IF macd_trend(macd) = BEARISH THEN Str("Bearish")
         ELSE NA
    ELSE NA

\* lines 445-452
status_of(rsi) ==
    IF rsi # None
    THEN IF RLt(rsi, R(RSI_OVERSOLD)) THEN Str("Oversold")
         ELSE IF RGt(rsi, R(RSI_OVERBOUGHT)) THEN Str("Overbought")
         ELSE Str("Normal")
    ELSE Str("")

\* the line printed for one analysed coin (lines 429-454)
summary_row(coin) ==
    [symbol |-> coin.symbol,
     price |-> format_price(coin.price),
     change |-> format_change(coin.change_24h),
     rsi |-> format_rsi(coin.rsi),
     macd_status |-> macd_status_of(coin.macd),
     vol_ratio |-> IF coin.volume_ratio # None
                   THEN Cell("", coin.volume_ratio, 2, "x", FALSE, FALSE)
                   ELSE NA,
     status |-> status_of(coin.rsi)]

\* a variant of print_summary_table that prints a placeholder line instead of
\* skipping a coin without an analysis
print_summary_tablePlaceholders(coins) ==
    [k \in 1..Len(coins) |->
       IF coins[k] = None
       THEN [symbol |-> "Unknown", price |-> NA, change |-> NA, rsi |-> NA,
             macd_status |-> NA, vol_ratio |-> NA, status |-> NA]
       ELSE summary_row(coins[k])]

\* lines 425-454: the data lines of the table, in printing order
print_summary_table(coins) ==
    LET analysed == SelectSeq(coins, LAMBDA coin : coin # None)
    IN  [k \in 1..Len(analysed) |-> summary_row(analysed[k])]

\* lines 469-477: the block printed for one coin with alerts
alert_entry(coin, coin_alerts) ==
    [symbol |-> IF Truthy(coin) THEN coin.symbol ELSE "Unknown",
     price |-> IF Truthy(coin) THEN format_price(coin.price) ELSE NA,
     change |-> IF Truthy(coin) THEN format_change(coin.change_24h) ELSE NA,
     rsi |-> IF Truthy(coin) THEN format_rsi(coin.rsi) ELSE NA,
     alerts |-> coin_alerts]

\* lines 466-482: the blocks in printing order and whether the "no coins
\* matching" message is printed
print_alerts(coins, coins_alerts) ==
    LET n == IF Len(coins) < Len(coins_alerts) THEN Len(coins)
             ELSE Len(coins_alerts)
        pairs == [k \in 1..n |-> <<coins[k], coins_alerts[k]>>]
        shown == SelectSeq(pairs, LAMBDA pair : pair[2] # <<>>)
    IN  [entries |-> [k \in 1..Len(shown) |-> alert_entry(shown[k][1], shown[k][2])],
         no_matches |-> shown = <<>>]

----------------------------------------------------------------------------
(* run_multi_coin_screener *)

\* line 551
coins_to_screen ==
    <<"BTC", "ETH", "SOL", "XRP", "HYPE", "AAVE", "PUMP", "STABLE", "ENA", "BNB">>

\* the exchange's possible answers for one coin of the batch
BatchResponses ==
    {TickerFails, OhlcvFails(R(1), R(1), R(3))}
    \cup {Response("none", R(1), R(1), qv, n, R(1), t2, R(1)) :
            qv \in {None, R(3)}, n \in {MIN_CANDLES - 1, MIN_CANDLES},
            t2 \in {R(0), R(1)}}

\* the batch is the first 1..MaxCoins coins of the default list; `market`
\* logs the exchange's answer for each coin processed so far
InitBatch ==
    /\ pc = "loop"
    /\ \E n \in 1..MaxCoins : coin_list = FirstN(coins_to_screen, n)
    /\ i = 0 /\ all_coins = <<>> /\ all_alerts = <<>>
    /\ market = <<>>
    /\ coin_data = None /\ alerts = <<>>
    /\ table = <<>> /\ alert_section = <<>>
    /\ prices = <<>> /\ ohlcv_data = <<>> /\ call = None /\ ema = None
    /\ idx = 0 /\ ret = None

\* one iteration of the loop, lines 510-528
AnalyzeNext ==
    /\ pc = "loop"
    /\ i < Len(coin_list)
    /\ \E resp \in BatchResponses :
         /\ market' = Append(market, resp)
         /\ coin_data' = analyze_coin(symbol_of(coin_list[i + 1]), resp)
    /\ all_coins' = Append(all_coins, coin_data')
    /\ alerts' = IF Truthy(coin_data') THEN screen_coin(coin_data') ELSE <<>>
    /\ all_alerts' = Append(all_alerts, alerts')
    /\ i' = i + 1
    /\ UNCHANGED <<pc, indVars, coin_list, table, alert_section>>

\* line 531
PrintSummaryTable ==
    /\ pc = "loop"
    /\ i = Len(coin_list)
    /\ table' = print_summary_table(all_coins)
    /\ pc' = "summary"
    /\ UNCHANGED <<indVars, screenVars, market, coin_list, i, all_coins,
                   all_alerts, alert_section>>

\* line 532
PrintAlerts ==
    /\ pc = "summary"
    /\ alert_section' = print_alerts(all_coins, all_alerts)
    /\ pc' = "done"
    /\ UNCHANGED <<indVars, screenVars, market, coin_list, i, all_coins,
                   all_alerts, table>>

NextBatch ==
    \/ AnalyzeNext
    \/ PrintSummaryTable
    \/ PrintAlerts

SpecBatch == InitBatch /\ [][NextBatch]_vars

----------------------------------------------------------------------------
(* Properties of the batch run (checked under SpecBatch) *)

Failed(resp) == resp.fails # "none"

LoopOver == pc \in {"loop", "summary", "done"} /\ i = Len(coin_list)

\* C1: after the loop the analysis list and the alert list have one entry per
\* asset at the asset's position; an asset whose exchange call raised has no
\* analysis and no alerts; every asset whose calls succeeded and returned at
\* least 50 candles has its analysis.
C1_EveryAssetProcessed ==
    LoopOver =>
       /\ Len(all_coins) = Len(coin_list)
       /\ Len(all_alerts) = Len(coin_list)
       /\ \A k \in 1..Len(coin_list) :
            /\ Failed(market[k]) =>
                 (all_coins[k] = None /\ all_alerts[k] = <<>>)
            /\ (~Failed(market[k]) /\ market[k].candles.n >= MIN_CANDLES) =>
                 /\ all_coins[k] # None
                 /\ all_coins[k].symbol = coin_list[k]

\* positions of the batch whose asset has an analysis, in batch order
Analysed ==
    SelectSeq([k \in 1..Len(all_coins) |-> k], LAMBDA k : all_coins[k] # None)

\* positions of the batch whose asset fired at least one alert
Alerted ==
    SelectSeq([k \in 1..Len(all_alerts) |-> k], LAMBDA k : all_alerts[k] # <<>>)

AllNA(row) ==
    /\ row.price = NA /\ row.change = NA /\ row.rsi = NA
    /\ row.macd_status = NA /\ row.vol_ratio = NA

=============================================================================
